---- MODULE Spec2Model ----
(***************************************************************************)
(* Model of Brute_force.py: the wordlist lookup (common_guess), the        *)
(* exhaustive search (brute_force) and the orchestration of the two        *)
(* (main).  Strings are sequences of characters.                           *)
(***************************************************************************)
EXTENDS Integers, Sequences, FiniteSets, TLC

\* ------------------------------------------------------------------------
\* Bounds of the exploration
\* ------------------------------------------------------------------------
\* longest word / largest `length` argument explored
MaxLen == 2
\* largest search space (|chars|^length) of an explored call
MaxSpace == 5000
\* largest max_attempts explored for direct calls of brute_force
MaxBudget == 3
\* longest wordlist explored for direct calls of common_guess
MaxLines == 3
\* the non-zero print_every explored for direct calls of brute_force
ProgressStep == 2

\* ------------------------------------------------------------------------
\* Python values
\* ------------------------------------------------------------------------
\* None as a returned value (an Optional[str])
None == [tag |-> "None"]
\* max_attempts=None: the integer argument left unset
NoLimit == -1

Range(s) == {s[k] : k \in 1..Len(s)}

\* Characters are their code points (ord): "a" is 97, "0" is 48, "~" is 126.
Codes(lo, hi) == [k \in 1..(hi - lo + 1) |-> lo + k - 1]
\* string.ascii_lowercase: a-z
ascii_lowercase == Codes(97, 122)
\* string.digits: 0-9
string_digits == Codes(48, 57)
\* string.punctuation: !"#$%&'()*+,-./  :;<=>?@  [\]^_`  {|}~
string_punctuation == Codes(33, 47) \o Codes(58, 64) \o Codes(91, 96) \o Codes(123, 126)
\* A-Z
ascii_uppercase == 65..90

\* str.isdigit / str.isalnum on ASCII characters
isdigit(ch) == ch \in Range(string_digits)
isalnum(ch) ==
  ch \in Range(ascii_lowercase) \cup ascii_uppercase \cup Range(string_digits)

RECURSIVE Pow(_, _)
Pow(b, e) == IF e = 0 THEN 1 ELSE b * Pow(b, e - 1)

\* ------------------------------------------------------------------------
\* common_guess
\* ------------------------------------------------------------------------
\* the exception open()/read() raises for a wordlist in the given condition
OpenError(status) ==
  CASE status = "missing"     -> "FileNotFoundError"
    [] status = "denied"      -> "PermissionError"
    [] status = "undecodable" -> "UnicodeDecodeError"
    [] OTHER                  -> "none"

CaughtAny(exc) == TRUE
\* the except clause of common_guess
Caught(exc) == exc = "FileNotFoundError"

\* f'common match: {w} (#{i})'
CommonMatch(w, i) == [tag |-> "common", w |-> w, i |-> i]

RECURSIVE ScanLast(_, _, _, _)
ScanLast(word_list, word, i, best) ==
  IF i > Len(word_list) THEN best
  ELSE IF word_list[i] = word
       THEN ScanLast(word_list, word, i + 1, CommonMatch(word_list[i], i))
       ELSE ScanLast(word_list, word, i + 1, best)
ScanKeepsLast(word_list, word, i) == ScanLast(word_list, word, i, None)

\* the for loop of common_guess, entered at 1-based position i
RECURSIVE Scan(_, _, _)
Scan(word_list, word, i) ==
  IF i > Len(word_list) THEN None
  ELSE IF word_list[i] = word THEN CommonMatch(word_list[i], i)
       ELSE Scan(word_list, word, i + 1)

\* truth value of an Optional[str]: the strings built above are never empty
TruthyInverted(v) == v = None
Truthy(v) == v # None

\* ------------------------------------------------------------------------
\* brute_force
\* ------------------------------------------------------------------------
CharsDigitsFirst(digits, symbol) ==
  (IF digits THEN string_digits ELSE << >>) \o ascii_lowercase
    \o (IF symbol THEN string_punctuation ELSE << >>)
\* the character set built from the two flags
Chars(digits, symbol) ==
  ascii_lowercase \o (IF digits THEN string_digits ELSE << >>)
    \o (IF symbol THEN string_punctuation ELSE << >>)

AttemptsInitOne == 0 + 1
\* attempts = 0
AttemptsInit == 0

\* itertools.product(chars, repeat=length): whether a first tuple exists,
\* the first index vector, and the odometer step from one vector to the next
ProductHasFirst(n, length) == length = 0 \/ n > 0
ProductFirst(length) == [k \in 1..length |-> 1]

ProductNextNoCarry(ix, n) ==
  IF Len(ix) > 0 /\ ix[Len(ix)] < n
  THEN [done |-> FALSE, ix |-> [ix EXCEPT ![Len(ix)] = @ + 1]]
  ELSE [done |-> TRUE, ix |-> ix]

RECURSIVE Roll(_, _, _)
Roll(ix, pos, n) ==
  IF pos = 0 THEN [done |-> TRUE, ix |-> ix]
  ELSE IF ix[pos] < n THEN [done |-> FALSE, ix |-> [ix EXCEPT ![pos] = @ + 1]]
       ELSE Roll([ix EXCEPT ![pos] = 1], pos - 1, n)
ProductNext(ix, n) == Roll(ix, Len(ix), n)

\* ''.join(combo)
Join(ix, chars) == [k \in 1..Len(ix) |-> chars[ix[k]]]

\* f'"{word}" was cracked in {attempts} guesses.'
Cracked(w, n) == [tag |-> "cracked", word |-> w, attempts |-> n]

ReturnValueNone(site, w, n) == None
\* the value returned at each return statement of brute_force
ReturnValue(site, w, n) == IF site = "found" THEN Cracked(w, n) ELSE None

ShouldPrint(pe, n) == pe # 0 /\ n % pe = 0

BudgetReachedLate(limit, n) == limit # NoLimit /\ n > limit
\* max_attempts is not None and attempts >= max_attempts
BudgetReached(limit, n) == limit # NoLimit /\ n >= limit

\* ------------------------------------------------------------------------
\* main
\* ------------------------------------------------------------------------
need_digits(password) == \E k \in 1..Len(password) : isdigit(password[k])
need_symbols(password) == \E k \in 1..Len(password) : ~isalnum(password[k])
MainPrintEvery == 100000
MainMaxAttempts == 5000000

\* ------------------------------------------------------------------------
\* Inputs
\* ------------------------------------------------------------------------
RECURSIVE SeqsUpTo(_, _)
SeqsUpTo(S, n) ==
  IF n = 0 THEN { << >> }
  ELSE LET shorter == SeqsUpTo(S, n - 1)
       IN  shorter \cup { Append(s, x) : s \in { t \in shorter : Len(t) = n - 1 }, x \in S }

\* characters words are made of: first/second letter, last digit, last
\* punctuation character, a blank and an upper-case letter
\*   "a" "b" "9" "~" " " "A"
WordChars == { 97, 98, 57, 126, 32, 65 }
Words == SeqsUpTo(WordChars, MaxLen)
\* characters of the words direct calls of brute_force search for; each is
\* outside the alphabet for some choice of the flags:  "a" "b" "9" "~"
SearchChars == { 97, 98, 57, 126 }
SearchWords == SeqsUpTo(SearchChars, MaxLen)
\* lines a wordlist is made of
\*   "", "a", "A", "ab"
LineWords == { << >>, << 97 >>, << 65 >>, << 97, 98 >> }
Wordlists == SeqsUpTo(LineWords, MaxLines)
FileOf(status, lines) == [status |-> status, lines |-> lines]
BrokenFiles == { FileOf(s, << >>) : s \in { "missing", "denied", "undecodable" } }
Files == BrokenFiles \cup { FileOf("ok", l) : l \in Wordlists }
\* the wordlist of runs of main:  "A", "a", "ab", "a"
MainLines == << << 65 >>, << 97 >>, << 97, 98 >>, << 97 >> >>
MainFiles == BrokenFiles \cup { FileOf("ok", MainLines) }

VARIABLES
  entry,         \* the function called from outside
  pc,            \* position of the program
  file,          \* brute_force.txt: its condition and its lines
  word,          \* word / password
  length, digits, symbol, print_every, max_attempts,   \* arguments of brute_force
  common,        \* value returned by common_guess
  raised,        \* exception that left common_guess, "none" if none
  started,       \* the product iterator has yielded its first tuple
  indices,       \* index vector of the product iterator
  attempts,      \* attempts counter
  guess_str,     \* last candidate joined
  result,        \* value returned by brute_force
  outcome,       \* return statement brute_force left through
  stdout,        \* what was printed: progress lines, interrupt notice, report
  compared,      \* number of candidates compared with word
  seen,          \* candidates generated so far (recorded when track holds)
  track

vars == << entry, pc, file, word, length, digits, symbol, print_every,
           max_attempts, common, raised, started, indices, attempts,
           guess_str, result, outcome, stdout, compared, seen, track >>

args == << length, digits, symbol, print_every, max_attempts >>
search == << started, indices, attempts, guess_str, result, outcome, compared, seen >>

NoOutput == [progress |-> 0, interrupted |-> FALSE, report |-> "none"]

InitLocals ==
  /\ common = None
  /\ raised = "none"
  /\ started = FALSE
  /\ indices = << >>
  /\ attempts = 0
  /\ guess_str = << >>
  /\ result = None
  /\ outcome = "none"
  /\ stdout = NoOutput
  /\ compared = 0
  /\ seen = { }

InitMain ==
  /\ entry = "main"
  /\ pc = "common_guess"
  /\ file \in MainFiles
  /\ word \in Words
  /\ Pow(Len(Chars(need_digits(word), need_symbols(word))), Len(word)) <= MaxSpace
  /\ length = 0 /\ digits = FALSE /\ symbol = FALSE
  /\ print_every = 0 /\ max_attempts = NoLimit

InitCommonGuess ==
  /\ entry = "common_guess"
  /\ pc = "common_guess"
  /\ file \in Files
  /\ word \in Words
  /\ length = 0 /\ digits = FALSE /\ symbol = FALSE
  /\ print_every = 0 /\ max_attempts = NoLimit

InitBruteForce ==
  /\ entry = "brute_force"
  /\ pc = "brute_force"
  /\ file = FileOf("missing", << >>)
  /\ word \in SearchWords
  /\ length \in 0..MaxLen
  /\ digits \in BOOLEAN
  /\ symbol \in BOOLEAN
  /\ Pow(Len(Chars(digits, symbol)), length) <= MaxSpace
  \* words no longer than the longest search explored with every flag set
  /\ Pow(Len(Chars(TRUE, TRUE)), Len(word)) <= MaxSpace
  /\ max_attempts \in { NoLimit } \cup 1..MaxBudget
  \* progress lines are explored on capped calls
  /\ print_every \in IF max_attempts = NoLimit THEN { 0 } ELSE { 0, ProgressStep }

Init ==
  /\ track = FALSE
  /\ InitLocals
  /\ (InitMain \/ InitCommonGuess \/ InitBruteForce)

\* common_guess, lines 10-26
CommonGuess ==
  /\ pc = "common_guess"
  /\ LET exc == OpenError(file.status) IN
       IF exc # "none" /\ ~Caught(exc)
       THEN /\ raised' = exc
            /\ common' = common
            /\ pc' = "raised"
       ELSE /\ raised' = raised
            /\ common' = IF exc # "none" THEN None ELSE Scan(file.lines, word, 1)
            /\ pc' = IF entry = "main" THEN "main_branch" ELSE "done"
  /\ UNCHANGED << entry, file, word, args, search, stdout, track >>

\* main, lines 95-116: print the match, or detect the character classes
\* and call brute_force
MainBranch ==
  /\ pc = "main_branch"
  /\ IF Truthy(common)
     THEN /\ stdout' = [stdout EXCEPT !.report = "common"]
          /\ pc' = "main_time"
          /\ UNCHANGED args
     ELSE /\ length' = Len(word)
          /\ digits' = need_digits(word)
          /\ symbol' = need_symbols(word)
          /\ print_every' = MainPrintEvery
          /\ max_attempts' = MainMaxAttempts
          /\ pc' = "brute_force"
          /\ UNCHANGED stdout
  /\ UNCHANGED << entry, file, word, common, raised, search, track >>

\* brute_force, lines 40-53: build chars, reset the counter, create the iterator
BruteForceStart ==
  /\ pc = "brute_force"
  /\ attempts' = AttemptsInit
  /\ started' = FALSE
  /\ indices' = << >>
  /\ pc' = "for"
  /\ UNCHANGED << entry, file, word, args, common, raised, guess_str, result,
                  outcome, stdout, compared, seen, track >>

Return(site) ==
  /\ outcome' = site
  /\ result' = ReturnValue(site, word, attempts)
  /\ pc' = IF entry = "main" THEN "main_report" ELSE "done"

NextTuple ==
  IF started THEN ProductNext(indices, Len(Chars(digits, symbol)))
  ELSE [done |-> ~ProductHasFirst(Len(Chars(digits, symbol)), length),
        ix |-> ProductFirst(length)]

\* positions inside the try block (lines 50-69), between any two of which
\* a KeyboardInterrupt can be delivered
InLoop == { "for", "join", "compare", "return", "print", "cap" }

\* lines 53-54: the iterator yields the next tuple and it is counted
Fetch ==
  /\ pc = "for"
  /\ ~NextTuple.done
  /\ started' = TRUE
  /\ indices' = NextTuple.ix
  /\ attempts' = attempts + 1
  /\ seen' = IF track THEN seen \cup { Join(NextTuple.ix, Chars(digits, symbol)) } ELSE seen
  /\ pc' = "join"
  /\ UNCHANGED << entry, file, word, args, common, raised, guess_str, result,
                  outcome, stdout, compared, track >>

\* lines 53, 75: the iterator is exhausted
Exhausted ==
  /\ pc = "for"
  /\ NextTuple.done
  /\ Return("exhausted")
  /\ UNCHANGED << entry, file, word, args, common, raised, started, indices,
                  attempts, guess_str, stdout, compared, seen, track >>

\* line 56: guess_str = ''.join(combo)
JoinGuess ==
  /\ pc = "join"
  /\ guess_str' = Join(indices, Chars(digits, symbol))
  /\ pc' = "compare"
  /\ UNCHANGED << entry, file, word, args, common, raised, started, indices,
                  attempts, result, outcome, stdout, compared, seen, track >>

\* line 59: if guess_str == word
Compare ==
  /\ pc = "compare"
  /\ compared' = compared + 1
  /\ pc' = IF guess_str = word THEN "return" ELSE "print"
  /\ UNCHANGED << entry, file, word, args, common, raised, started, indices,
                  attempts, guess_str, result, outcome, stdout, seen, track >>

\* line 61: return the cracked message
ReturnFound ==
  /\ pc = "return"
  /\ Return("found")
  /\ UNCHANGED << entry, file, word, args, common, raised, started, indices,
                  attempts, guess_str, stdout, compared, seen, track >>

\* lines 64-65: print the progress line every print_every attempts
Progress ==
  /\ pc = "print"
  /\ stdout' = IF ShouldPrint(print_every, attempts)
               THEN [stdout EXCEPT !.progress = @ + 1] ELSE stdout
  /\ pc' = "cap"
  /\ UNCHANGED << entry, file, word, args, common, raised, started, indices,
                  attempts, guess_str, result, outcome, compared, seen, track >>

\* lines 67-69: stop at the cap, otherwise go round the loop
Cap ==
  /\ pc = "cap"
  /\ IF BudgetReached(max_attempts, attempts)
     THEN Return("budget")
     ELSE /\ pc' = "for"
          /\ UNCHANGED << result, outcome >>
  /\ UNCHANGED << entry, file, word, args, common, raised, started, indices,
                  attempts, guess_str, stdout, compared, seen, track >>

InterruptIgnored ==
  /\ pc \in InLoop
  /\ stdout' = [stdout EXCEPT !.interrupted = TRUE]
  /\ UNCHANGED << entry, pc, file, word, args, common, raised, search, track >>

\* line 70: a KeyboardInterrupt raised anywhere inside the try block is caught
Interrupt ==
  /\ pc \in InLoop
  /\ pc' = "except"
  /\ UNCHANGED << entry, file, word, args, common, raised, search, stdout, track >>

\* line 72: print('Interrupted by user.')
Notice ==
  /\ pc = "except"
  /\ stdout' = [stdout EXCEPT !.interrupted = TRUE]
  /\ pc' = "return_none"
  /\ UNCHANGED << entry, file, word, args, common, raised, search, track >>

\* line 73: return None
ReturnCancelled ==
  /\ pc = "return_none"
  /\ Return("cancelled")
  /\ UNCHANGED << entry, file, word, args, common, raised, started, indices,
                  attempts, guess_str, stdout, compared, seen, track >>

\* main, lines 117-123
MainReport ==
  /\ pc = "main_report"
  /\ stdout' = [stdout EXCEPT !.report = IF Truthy(result) THEN "result" ELSE "nomatch"]
  /\ pc' = "main_time"
  /\ UNCHANGED << entry, file, word, args, common, raised, search, track >>

\* main, lines 125-126: print the elapsed time and finish
MainTime ==
  /\ pc = "main_time"
  /\ pc' = "done"
  /\ UNCHANGED << entry, file, word, args, common, raised, search, stdout, track >>

\* positions outside the try block at which the program is running: a
\* KeyboardInterrupt delivered there is caught nowhere (common_guess catches
\* FileNotFoundError only, the handler of brute_force is itself unprotected)
Unprotected ==
  { "common_guess", "brute_force", "except", "return_none" }
    \cup (IF entry = "main" THEN { "main_branch", "main_report", "main_time" } ELSE { })

\* a KeyboardInterrupt outside the try block leaves the function called
Propagate ==
  /\ pc \in Unprotected
  /\ raised' = "KeyboardInterrupt"
  /\ pc' = "raised"
  /\ UNCHANGED << entry, file, word, args, common, search, stdout, track >>

Next ==
  \/ CommonGuess
  \/ MainBranch
  \/ BruteForceStart
  \/ Fetch
  \/ Exhausted
  \/ JoinGuess
  \/ Compare
  \/ ReturnFound
  \/ Progress
  \/ Cap
  \/ Interrupt
  \/ Notice
  \/ ReturnCancelled
  \/ MainReport
  \/ MainTime
  \/ Propagate

Spec == Init /\ [][Next]_vars

\* ------------------------------------------------------------------------
\* A single call of brute_force with the generated candidates recorded
\* ------------------------------------------------------------------------
\*   "A" (never generated), "ba" (generated after a carry)
EnumWords == { << 65 >>, << 98, 97 >> }

InitEnum ==
  /\ track = TRUE
  /\ InitLocals
  /\ entry = "brute_force"
  /\ pc = "brute_force"
  /\ file = FileOf("missing", << >>)
  /\ word \in EnumWords
  /\ length \in 0..MaxLen
  /\ digits \in BOOLEAN
  /\ symbol \in BOOLEAN
  /\ Pow(Len(Chars(digits, symbol)), length) <= MaxSpace
  /\ print_every = 0
  /\ max_attempts \in { NoLimit, MaxBudget }

NextEnum ==
  \/ BruteForceStart
  \/ Fetch
  \/ Exhausted
  \/ JoinGuess
  \/ Compare
  \/ ReturnFound
  \/ Progress
  \/ Cap
  \/ Interrupt
  \/ Notice
  \/ ReturnCancelled
  \/ Propagate

SpecEnum == InitEnum /\ [][NextEnum]_vars

\* ------------------------------------------------------------------------
\* Properties
\* ------------------------------------------------------------------------
TypeOK ==
  /\ entry \in { "main", "common_guess", "brute_force" }
  /\ pc \in { "common_guess", "raised", "main_branch", "brute_force",
              "main_report", "main_time", "done", "except", "return_none" }
       \cup InLoop
  /\ outcome \in { "none", "found", "budget", "cancelled", "exhausted" }
  /\ attempts \in Nat
  /\ compared \in Nat
  /\ \A k \in 1..Len(indices) : indices[k] \in 1..Len(Chars(digits, symbol))

\* brute_force has returned
Returned == outcome # "none"
\* main has decided to call brute_force, or brute_force is running or has run
Invoked ==
  pc \in { "brute_force", "main_report", "except", "return_none" } \cup InLoop
    \/ Returned
\* a KeyboardInterrupt ended the call from outside the try block
Killed == raised = "KeyboardInterrupt"
\* word is one of the |chars|^length candidates
InSpace ==
  /\ Len(word) = length
  /\ \A k \in 1..Len(word) : word[k] \in Range(Chars(digits, symbol))
SpaceSize == Pow(Len(Chars(digits, symbol)), length)

IndexOf(c, chars) == CHOOSE k \in 1..Len(chars) : chars[k] = c
\* value of the first k characters of w read as a number in base |chars|
RECURSIVE Value(_, _, _)
Value(w, chars, k) ==
  IF k = 0 THEN 0
  ELSE Value(w, chars, k - 1) * Len(chars) + (IndexOf(w[k], chars) - 1)
\* 1-based lexicographic rank of w, leftmost position most significant
Rank(w, chars) == Value(w, chars, Len(w)) + 1
WordRank == Rank(word, Chars(digits, symbol))

\* the alphabet as claimed: lowercase a-z, then 0-9 if digits are asked
\* for, then the punctuation characters in code-point order if asked for
ClaimedAlphabet ==
  Codes(97, 122) \o (IF digits THEN Codes(48, 57) ELSE << >>)
    \o (IF symbol
        THEN Codes(33, 47) \o Codes(58, 64) \o Codes(91, 96) \o Codes(123, 126)
        ELSE << >>)

\* C1: without a budget, a target of length L over the alphabet (lowercase,
\* then digits, then punctuation) is reported found with attempts equal to
\* its 1-based lexicographic rank in that alphabet's order (rank 1 for the
\* empty target with L = 0).
C1_RankCorrespondence ==
  (Returned /\ max_attempts = NoLimit /\ outcome # "cancelled" /\ InSpace)
    => /\ outcome = "found"
       /\ attempts = Rank(word, ClaimedAlphabet)
       /\ result = Cracked(word, Rank(word, ClaimedAlphabet))
C1_Witness ==
  /\ Returned /\ max_attempts = NoLimit /\ InSpace
  /\ outcome = "found" /\ symbol /\ digits
  /\ attempts > Len(Chars(digits, symbol))

\* C2: with a budget K >= 1 and a target of rank R, the search stops on the
\* budget after exactly K candidates when R > K, and reports found with
\* attempts R when R <= K.
C2_BudgetCorrectness ==
  (Returned /\ max_attempts # NoLimit /\ outcome # "cancelled" /\ InSpace)
    => IF WordRank > max_attempts
       THEN /\ outcome = "budget"
            /\ attempts = max_attempts
            /\ compared = max_attempts
            /\ result = None
       ELSE /\ outcome = "found"
            /\ result = Cracked(word, WordRank)
C2_Witness ==
  /\ outcome = "budget" /\ InSpace
  /\ attempts = max_attempts /\ attempts >= 2

NotFound == { "budget", "cancelled", "exhausted" }

\* C3 as claimed: the value returned by brute_force differs between budget
\* exceeded, cancelled and exhausted.
C3_Distinguishable ==
  (Returned /\ outcome \in NotFound)
    => \A other \in NotFound \ { outcome } :
         ReturnValue(other, word, attempts) # result

\* C3 amended: the returned value tells found (a string with the attempt
\* count) from not found only: budget exceeded, cancelled and exhausted all
\* return None and main reports each as no match; a cancelled run differs
\* only by the interrupt notice brute_force prints.
C3_FoundOnly ==
  /\ Returned => /\ (outcome = "found") <=> (result = Cracked(word, attempts))
                 /\ (outcome \in NotFound) <=> (result = None)
                 /\ (outcome = "cancelled") <=> stdout.interrupted
  /\ (entry = "main" /\ pc = "done" /\ Returned)
       => (stdout.report = IF outcome = "found" THEN "result" ELSE "nomatch")
C3_Witness ==
  /\ entry = "main" /\ pc = "done"
  /\ outcome = "exhausted" /\ result = None /\ stdout.report = "nomatch"

Contains(f, w) == f.status = "ok" /\ \E k \in 1..Len(f.lines) : f.lines[k] = w

\* C4: in a run of main, brute_force is never invoked when the wordlist
\* contains the target, and is invoked only after common_guess returned
\* absence.
C4_ShortCircuit ==
  entry = "main"
    => /\ Contains(file, word) => ~Invoked
       /\ Invoked => (pc # "common_guess" /\ common = None /\ (raised = "none" \/ Killed))
C4_Witness ==
  /\ entry = "main" /\ pc = "done" /\ Contains(file, word)
  /\ stdout.report = "common" /\ ~Returned

\* C5: without budget and cancellation, a target outside the space ends the
\* search exhausted after exactly |chars|^length candidates.
C5_SpaceSize ==
  (Returned /\ max_attempts = NoLimit /\ outcome # "cancelled" /\ ~InSpace)
    => /\ outcome = "exhausted"
       /\ attempts = SpaceSize
       /\ compared = SpaceSize
       /\ result = None
C5_Witness ==
  /\ outcome = "exhausted" /\ max_attempts = NoLimit
  /\ length >= 2 /\ digits /\ symbol /\ attempts = SpaceSize

\* C6: a missing wordlist makes common_guess return absence without error
\* and main goes on to brute_force; an unreadable wordlist makes
\* common_guess raise to its caller instead of returning absence.
C6_WordlistFailure ==
  /\ (file.status = "missing" /\ pc # "common_guess" /\ ~Killed)
       => /\ raised = "none" /\ common = None /\ pc # "raised"
          /\ (entry = "main" /\ pc # "main_branch") => Invoked
  /\ (file.status \in { "denied", "undecodable" } /\ pc # "common_guess" /\ ~Killed)
       => /\ raised = OpenError(file.status)
          /\ pc = "raised"
          /\ ~Invoked
C6_Witness ==
  /\ entry = "main" /\ file.status = "denied" /\ raised = "PermissionError"

Min(S) == CHOOSE m \in S : \A x \in S : m <= x
Hits(f, w) == { k \in 1..Len(f.lines) : f.lines[k] = w }

\* C7: common_guess reports a match iff some line equals the target exactly,
\* and the position reported is the 1-based index of the first such line.
C7_FirstMatch ==
  (entry \in { "main", "common_guess" } /\ pc # "common_guess" /\ file.status = "ok"
     /\ raised = "none")
    => IF Hits(file, word) = { }
       THEN common = None
       ELSE common = CommonMatch(word, Min(Hits(file, word)))
C7_Witness ==
  /\ entry = "common_guess" /\ pc = "done"
  /\ common # None /\ common.i = 2
  /\ \E k \in 3..Len(file.lines) : file.lines[k] = word

\* str.isspace on ASCII characters: blank, \t \n \v \f \r, \x1c-\x1f
isspace(ch) == ch \in { 32 } \cup 9..13 \cup 28..31

\* C8: the alphabet main searches over is the lowercase letters, then the
\* digits iff the target has a digit, then the punctuation iff the target
\* has a character that is neither alphanumeric nor whitespace.
C8_AlphabetInference ==
  (entry = "main" /\ pc \in InLoop \cup { "main_report" })
    => Chars(digits, symbol) =
         ascii_lowercase
           \o (IF \E k \in 1..Len(word) : isdigit(word[k])
               THEN string_digits ELSE << >>)
           \o (IF \E k \in 1..Len(word) : ~isalnum(word[k]) /\ ~isspace(word[k])
               THEN string_punctuation ELSE << >>)

\* C9 as claimed: a cancelled search reports as attempts the number of
\* candidates fully compared (the request is honoured between candidates).
C9_Cooperative == outcome = "cancelled" => attempts = compared

\* what holds of the counters, the output and the returned value once an
\* interrupt was caught
C9_CancelState ==
  /\ (pc \in { "except", "return_none" } \/ outcome = "cancelled" \/ stdout.interrupted)
       => attempts \in { compared, compared + 1 }
  /\ stdout.interrupted
       => \/ pc = "return_none" /\ ~Returned
          \/ outcome = "cancelled" /\ result = None
          \/ Killed /\ pc = "raised" /\ ~Returned
  /\ outcome = "cancelled" => (stdout.interrupted /\ result = None)

\* C9 amended: the interrupt is caught wherever in the loop it arrives,
\* also between counting a candidate and comparing it; from then on no
\* further candidate is counted or compared, and unless a further interrupt
\* hits the handler (which then leaves brute_force with KeyboardInterrupt,
\* returning nothing) the notice is printed and None returned, with attempts
\* equal to the number of candidates compared or one more.
C9_InterruptStops ==
  /\ []C9_CancelState
  /\ [][(pc \in { "except", "return_none" } \/ stdout.interrupted)
          => (attempts' = attempts /\ compared' = compared /\ pc' \notin InLoop)]_vars
C9_Witness ==
  /\ outcome = "cancelled" /\ attempts = compared + 1 /\ attempts >= 2

\* C10: in one run of brute_force every generated candidate has length
\* exactly `length`, and the attempts counter equals the number of distinct
\* candidates generated so far (1 at the first, one more per candidate,
\* none generated twice).
C10_Enumeration ==
  track
    => /\ \A c \in seen : Len(c) = length
       /\ Cardinality(seen) = attempts
       /\ (pc \in InLoop \ { "for" }) => Join(indices, Chars(digits, symbol)) \in seen
       /\ (attempts = 0) <=> ~started
C10_Witness ==
  /\ track /\ digits /\ symbol /\ length = 2
  /\ Cardinality(seen) > Len(Chars(digits, symbol))
====
